---- MODULE Spec2Model ----
(***************************************************************************)
(* Model of package util of next-trace/scg-support: generic helpers over   *)
(* Go slices.  A slice is a header (nil or not, backing array, offset,     *)
(* length) over a heap of backing arrays, so that aliasing between an      *)
(* argument and a result, and a write through either, can be expressed.    *)
(* Every call starts from the idle state with arguments the caller         *)
(* supplies; Reverse and Shuffle run step by step, the other operations    *)
(* are single steps.                                                       *)
(***************************************************************************)
EXTENDS Integers, Sequences, FiniteSets, TLC

\* ------------------------------------------------------------------ bounds
\* Element values are 1..MaxElem.
MaxElem == 2
\* Most sequences a caller passes to one call (the sequences of a variadic
\* operation, the inner sequences of Flatten).
MaxSeqs == 3
\* Most elements in all sequences passed to one call together.
MaxCells == 4
\* Largest value of a Go byte.
MaxByte == 255

Elem == 1..MaxElem

\* ------------------------------------------------------- argument values
\* What a caller passes: no sequence at all (nil), or a sequence.
AbsentValue == [absent |-> TRUE, elems |-> << >>]

PresentValue(s) == [absent |-> FALSE, elems |-> s]

SeqsOfLen(k) == [1..k -> Elem]

SeqsUpTo(k) == UNION {SeqsOfLen(l) : l \in 0..k}

ValuesUpTo(k) == {AbsentValue} \cup {PresentValue(s) : s \in SeqsUpTo(k)}

\* ------------------------------------------------------------ the heap
\* Backing arrays 1..MaxSeqs hold the caller's sequences, OuterA the outer
\* array of a slice of slices the caller passes, FreeA and FreeB what a
\* call allocates.
OuterA == MaxSeqs + 1

FreeA == MaxSeqs + 2

FreeB == MaxSeqs + 3

Allocs == 1..FreeB

InAllocs == 1..OuterA

EmptyHeap == [a \in Allocs |-> << >>]

\* var s S: the nil slice.
NilSlice == [absent |-> TRUE, base |-> 0, off |-> 0, len |-> 0]

\* S{}: a slice that is not nil and has no element and no storage.
EmptySlice == [absent |-> FALSE, base |-> 0, off |-> 0, len |-> 0]

SliceAt(a, n) == [absent |-> FALSE, base |-> a, off |-> 0, len |-> n]

\* s[lo:hi]
SubSlice(s, lo, hi) == [absent |-> FALSE, base |-> s.base, off |-> s.off + lo, len |-> hi - lo]

\* The elements of s, index 0 of Go at position 1.
Elems(h, s) == [k \in 1..s.len |-> h[s.base][s.off + k]]

\* var result S; result = append(result, x) for each x of elems: nil when
\* nothing was appended, else a fresh array a holding elems.
Appended(h, a, elems) ==
    IF Len(elems) = 0
    THEN [s |-> NilSlice, h |-> h]
    ELSE [s |-> SliceAt(a, Len(elems)), h |-> [h EXCEPT ![a] = elems]]

\* make(S, n) filled with elems, or make(S, 0, n) appended to: never nil.
Made(h, a, elems) == [s |-> SliceAt(a, Len(elems)), h |-> [h EXCEPT ![a] = elems]]

\* slices.Clone(s): nil for nil, else append(s[:0:0], s...).
Clone(h, a, s) ==
    IF s.absent THEN [s |-> NilSlice, h |-> h]
    ELSE IF s.len = 0 THEN [s |-> SubSlice(s, 0, 0), h |-> h]
    ELSE Made(h, a, Elems(h, s))

\* ------------------------------------------------- caller-supplied functions
Preds == {"always", "never", "isOne", "evenIndex"}

predicate(p, item, index) ==
    CASE p = "always" -> TRUE
      [] p = "never" -> FALSE
      [] p = "isOne" -> item = 1
      [] OTHER -> index % 2 = 0

Iteratees == {"timesTen", "plusIndex"}

iteratee(f, item, index) == IF f = "timesTen" THEN item * 10 ELSE item + index

Getters == {"negated"}

propertyGetter(g, item) == 0 - item

\* ------------------------------------------------------------ operations
\* Every operation is given the heap h and its argument slices and yields
\* the slices it returns (ret) and the heap after it (h).
Returns(r) == [ret |-> <<r.s>>, h |-> r.h]

ReturnsNil(h) == [ret |-> <<NilSlice>>, h |-> h]

Min(a, b) == IF a < b THEN a ELSE b

\* Faulty variant of Map: the nil check is missing.
MapOfNil(h, collection, f) ==
    LET e == Elems(h, collection)
    IN  Returns(Made(h, FreeA, [k \in 1..Len(e) |-> iteratee(f, e[k], k - 1)]))

Map(h, collection, f) ==
    IF collection.absent THEN ReturnsNil(h)
    ELSE LET e == Elems(h, collection)
         IN  Returns(Made(h, FreeA, [k \in 1..Len(e) |-> iteratee(f, e[k], k - 1)]))

\* Faulty variant of Filter: result := make(S, 0) in place of var result S.
FilterMade(h, collection, p) ==
    IF collection.absent THEN ReturnsNil(h)
    ELSE LET e == Elems(h, collection)
             result[k \in 0..Len(e)] ==
                 IF k = 0 THEN << >>
                 ELSE IF predicate(p, e[k], k - 1) THEN Append(result[k - 1], e[k])
                 ELSE result[k - 1]
         IN  Returns(Made(h, FreeA, result[Len(e)]))

Filter(h, collection, p) ==
    IF collection.absent THEN ReturnsNil(h)
    ELSE LET e == Elems(h, collection)
             result[k \in 0..Len(e)] ==
                 IF k = 0 THEN << >>
                 ELSE IF predicate(p, e[k], k - 1) THEN Append(result[k - 1], e[k])
                 ELSE result[k - 1]
         IN  Returns(Appended(h, FreeA, result[Len(e)]))

\* Faulty variant of FirstOccurrences: seen[item] is never set.
NeverSeen(e) == e

\* The loop of Unique (and of Union over all its sequences in turn): the
\* items not seen before, in the order met.
FirstOccurrences(e) ==
    LET loop[k \in 0..Len(e)] ==
            IF k = 0 THEN [seen |-> {}, result |-> << >>]
            ELSE LET prev == loop[k - 1]
                 IN  IF e[k] \notin prev.seen
                     THEN [seen |-> prev.seen \cup {e[k]}, result |-> Append(prev.result, e[k])]
                     ELSE prev
    IN  loop[Len(e)].result

\* Faulty variant of Unique: an item is dropped only when it repeats the
\* item just before it.
UniqueOfNeighbours(h, collection) ==
    IF collection.absent THEN ReturnsNil(h)
    ELSE LET e == Elems(h, collection)
             result[k \in 0..Len(e)] ==
                 IF k = 0 THEN << >>
                 ELSE IF k > 1 /\ e[k] = e[k - 1] /\ (k = 2 \/ e[k - 1] # e[k - 2])
                      THEN result[k - 1]
                 ELSE Append(result[k - 1], e[k])
         IN  Returns(Appended(h, FreeA, result[Len(e)]))

Unique(h, collection) ==
    IF collection.absent THEN ReturnsNil(h)
    ELSE Returns(Appended(h, FreeA, FirstOccurrences(Elems(h, collection))))

\* Faulty variant of Pluck: var result []R appended to, in place of make.
PluckAppended(h, collection, g) ==
    IF collection.absent THEN ReturnsNil(h)
    ELSE LET e == Elems(h, collection)
         IN  Returns(Appended(h, FreeA, [k \in 1..Len(e) |-> propertyGetter(g, e[k])]))

Pluck(h, collection, g) ==
    IF collection.absent THEN ReturnsNil(h)
    ELSE LET e == Elems(h, collection)
         IN  Returns(Made(h, FreeA, [k \in 1..Len(e) |-> propertyGetter(g, e[k])]))

\* Faulty variant of Chunk: the loop ends before a group that would be short.
ChunkWholeOnly(h, collection, size) ==
    IF collection.absent \/ size < 1 THEN ReturnsNil(h)
    ELSE IF collection.len = 0 THEN [ret |-> <<EmptySlice>>, h |-> h]
    ELSE LET length == collection.len
             chunks[i \in 0..(length + size)] ==
                 IF i + size > length THEN << >>
                 ELSE <<SubSlice(collection, i, i + size)>> \o chunks[i + size]
         IN  Returns(Made(h, FreeA, chunks[0]))

Chunk(h, collection, size) ==
    IF collection.absent \/ size < 1 THEN ReturnsNil(h)
    ELSE IF collection.len = 0 THEN [ret |-> <<EmptySlice>>, h |-> h]
    ELSE LET length == collection.len
             chunks[i \in 0..(length + size)] ==
                 IF i >= length THEN << >>
                 ELSE <<SubSlice(collection, i, Min(i + size, length))>> \o chunks[i + size]
         IN  Returns(Made(h, FreeA, chunks[0]))

\* All inner sequences of a slice of slices, one after the other.
Concat(h, inner) ==
    LET loop[k \in 0..Len(inner)] ==
            IF k = 0 THEN << >> ELSE loop[k - 1] \o Elems(h, inner[k])
    IN  loop[Len(inner)]

\* Faulty variant of Flatten: var result []E appended to, in place of make.
FlattenAppended(h, collections) ==
    IF collections.absent THEN ReturnsNil(h)
    ELSE Returns(Appended(h, FreeA, Concat(h, Elems(h, collections))))

Flatten(h, collections) ==
    IF collections.absent THEN ReturnsNil(h)
    ELSE Returns(Made(h, FreeA, Concat(h, Elems(h, collections))))

\* Faulty variant of CountOnce: every occurrence is counted, seen is not consulted.
CountEvery(counts, e) ==
    LET loop[k \in 0..Len(e)] ==
            IF k = 0 THEN counts ELSE [loop[k - 1] EXCEPT ![e[k]] = @ + 1]
    IN  loop[Len(e)]

\* One pass of Intersect's counting loop over one of the other sequences:
\* elementCounts[item]++ for each item not yet seen in this sequence.
CountOnce(counts, e) ==
    LET loop[k \in 0..Len(e)] ==
            IF k = 0 THEN [seen |-> {}, counts |-> counts]
            ELSE LET prev == loop[k - 1]
                 IN  IF e[k] \notin prev.seen
                     THEN [seen |-> prev.seen \cup {e[k]},
                           counts |-> [prev.counts EXCEPT ![e[k]] = @ + 1]]
                     ELSE prev
    IN  loop[Len(e)].counts

\* elementCounts after the sequences collections[2..] have been counted.
ElementCounts(h, collections) ==
    LET loop[c \in 1..Len(collections)] ==
            IF c = 1 THEN [v \in Elem |-> 0]
            ELSE CountOnce(loop[c - 1], Elems(h, collections[c]))
    IN  loop[Len(collections)]

\* Faulty variant of IntersectOfOne: the single sequence is cloned.
IntersectOfOneCloned(h, collections) == Returns(Clone(h, FreeA, collections[1]))

\* if len(collections) == 1 { return collections[0] }
IntersectOfOne(h, collections) == [ret |-> <<collections[1]>>, h |-> h]

Intersect(h, collections) ==
    IF Len(collections) = 0 THEN ReturnsNil(h)
    ELSE IF Len(collections) = 1 THEN IntersectOfOne(h, collections)
    ELSE LET elementCounts == ElementCounts(h, collections)
             e == Elems(h, collections[1])
             loop[k \in 0..Len(e)] ==
                 IF k = 0 THEN [seen |-> {}, result |-> << >>]
                 ELSE LET prev == loop[k - 1]
                      IN  IF e[k] \notin prev.seen /\ elementCounts[e[k]] = Len(collections) - 1
                          THEN [seen |-> prev.seen \cup {e[k]},
                                result |-> Append(prev.result, e[k])]
                          ELSE prev
             result == loop[Len(e)].result
         IN  IF Len(result) = 0 /\ Len(e) > 0
             THEN [ret |-> <<EmptySlice>>, h |-> h]
             ELSE Returns(Appended(h, FreeA, result))

\* Faulty variant of Excluded: only the first of the other sequences is read.
ExcludedOfFirstOther(h, others) ==
    IF Len(others) = 0 THEN {}
    ELSE {Elems(h, others[1])[k] : k \in 1..others[1].len}

\* The exclude set of Difference: every item of every other sequence.
Excluded(h, others) ==
    UNION {{Elems(h, others[c])[k] : k \in 1..others[c].len} : c \in 1..Len(others)}

Difference(h, first, others) ==
    IF first.absent THEN ReturnsNil(h)
    ELSE LET exclude == Excluded(h, others)
             e == Elems(h, first)
             result[k \in 0..Len(e)] ==
                 IF k = 0 THEN << >>
                 ELSE IF e[k] \notin exclude THEN Append(result[k - 1], e[k])
                 ELSE result[k - 1]
         IN  Returns(Appended(h, FreeA, result[Len(e)]))

\* Faulty variant of Union: seen is not consulted, every item is appended.
UnionKeepsAll(h, slices) ==
    IF Len(slices) = 0 THEN ReturnsNil(h)
    ELSE Returns(Appended(h, FreeA, Concat(h, slices)))

Union(h, slices) ==
    IF Len(slices) = 0 THEN ReturnsNil(h)
    ELSE Returns(Appended(h, FreeA, FirstOccurrences(Concat(h, slices))))

\* Faulty variant of PartitionLoop: the predicate is handed the index plus one.
PartitionLoopFromOne(e, p) ==
    LET loop[k \in 0..Len(e)] ==
            IF k = 0 THEN [matched |-> << >>, unmatched |-> << >>]
            ELSE LET prev == loop[k - 1]
                 IN  IF predicate(p, e[k], k)
                     THEN [prev EXCEPT !.matched = Append(@, e[k])]
                     ELSE [prev EXCEPT !.unmatched = Append(@, e[k])]
    IN  loop[Len(e)]

\* matched and unmatched when Partition's loop is over.
PartitionLoop(e, p) ==
    LET loop[k \in 0..Len(e)] ==
            IF k = 0 THEN [matched |-> << >>, unmatched |-> << >>]
            ELSE LET prev == loop[k - 1]
                 IN  IF predicate(p, e[k], k - 1)
                     THEN [prev EXCEPT !.matched = Append(@, e[k])]
                     ELSE [prev EXCEPT !.unmatched = Append(@, e[k])]
    IN  loop[Len(e)]

\* Faulty variant of EmptyIfNone: the side without elements stays nil.
NilIfNone(r, collection) == r

\* if len(side) == 0 && len(collection) > 0 { side = S{} }
EmptyIfNone(r, collection) ==
    IF r.s.len = 0 /\ collection.len > 0 THEN [s |-> EmptySlice, h |-> r.h] ELSE r

Partition(h, collection, p) ==
    IF collection.absent THEN [ret |-> <<NilSlice, NilSlice>>, h |-> h]
    ELSE LET sides == PartitionLoop(Elems(h, collection), p)
             matched == EmptyIfNone(Appended(h, FreeA, sides.matched), collection)
             unmatched == EmptyIfNone(Appended(matched.h, FreeB, sides.unmatched), collection)
         IN  [ret |-> <<matched.s, unmatched.s>>, h |-> unmatched.h]

\* Faulty variant of Zip: nil, not an empty slice, when minLen is 0.
ZipNilWhenEmpty(h, slice1, slice2) ==
    IF slice1.absent \/ slice2.absent THEN ReturnsNil(h)
    ELSE LET minLen == IF slice2.len < slice1.len THEN slice2.len ELSE slice1.len
             e1 == Elems(h, slice1)
             e2 == Elems(h, slice2)
         IN  IF minLen = 0 THEN ReturnsNil(h)
             ELSE Returns(Made(h, FreeA, [k \in 1..minLen |-> <<e1[k], e2[k]>>]))

Zip(h, slice1, slice2) ==
    IF slice1.absent \/ slice2.absent THEN ReturnsNil(h)
    ELSE LET minLen == IF slice2.len < slice1.len THEN slice2.len ELSE slice1.len
             e1 == Elems(h, slice1)
             e2 == Elems(h, slice2)
         IN  IF minLen = 0 THEN [ret |-> <<EmptySlice>>, h |-> h]
             ELSE Returns(Made(h, FreeA, [k \in 1..minLen |-> <<e1[k], e2[k]>>]))

ZipWithIndex(h, collection) ==
    IF collection.absent THEN ReturnsNil(h)
    ELSE IF collection.len = 0 THEN [ret |-> <<EmptySlice>>, h |-> h]
    ELSE LET e == Elems(h, collection)
         IN  Returns(Made(h, FreeA, [k \in 1..Len(e) |-> <<e[k], k - 1>>]))

Take(h, collection, n) ==
    IF collection.absent THEN ReturnsNil(h)
    ELSE IF n <= 0 THEN [ret |-> <<EmptySlice>>, h |-> h]
    ELSE IF n >= collection.len THEN Returns(Clone(h, FreeA, collection))
    ELSE Returns(Clone(h, FreeA, SubSlice(collection, 0, n)))

\* Faulty variant of Drop: nil, not S{}, when n reaches the length.
DropNilBeyond(h, collection, n) ==
    IF collection.absent THEN ReturnsNil(h)
    ELSE IF n <= 0 THEN Returns(Clone(h, FreeA, collection))
    ELSE IF n >= collection.len THEN ReturnsNil(h)
    ELSE Returns(Clone(h, FreeA, SubSlice(collection, n, collection.len)))

Drop(h, collection, n) ==
    IF collection.absent THEN ReturnsNil(h)
    ELSE IF n <= 0 THEN Returns(Clone(h, FreeA, collection))
    ELSE IF n >= collection.len THEN [ret |-> <<EmptySlice>>, h |-> h]
    ELSE Returns(Clone(h, FreeA, SubSlice(collection, n, collection.len)))

\* ------------------------------------------- operations returning values
Reducers == {"sum", "byIndex", "positional"}

reducer(r, acc, item, index) ==
    CASE r = "sum" -> acc + item
      [] r = "byIndex" -> acc + item * index
      [] OTHER -> acc * 3 + item

Initials == {0, 7}

\* Faulty variant of ReduceLoop: the elements are taken from the last to the first.
ReduceLoopFromRight(h, collection, initialValue, r) ==
    LET e == Elems(h, collection)
        loop[k \in 0..Len(e)] ==
            IF k = 0 THEN [result |-> initialValue, calls |-> << >>]
            ELSE LET prev == loop[k - 1]
                     at == Len(e) - k + 1
                 IN  [result |-> reducer(r, prev.result, e[at], at - 1),
                      calls |-> Append(prev.calls, <<prev.result, e[at], at - 1>>)]
    IN  loop[Len(e)]

\* Reduce's loop: result after it, and the invocations of reducer it made.
ReduceLoop(h, collection, initialValue, r) ==
    LET e == Elems(h, collection)
        loop[k \in 0..Len(e)] ==
            IF k = 0 THEN [result |-> initialValue, calls |-> << >>]
            ELSE LET prev == loop[k - 1]
                 IN  [result |-> reducer(r, prev.result, e[k], k - 1),
                      calls |-> Append(prev.calls, <<prev.result, e[k], k - 1>>)]
    IN  loop[Len(e)]

Reduce(h, collection, initialValue, r) ==
    IF collection.len = 0 THEN initialValue
    ELSE ReduceLoop(h, collection, initialValue, r).result

\* Faulty variant of MapReduce: the reducer is handed the index plus one.
MapReduceFromOne(h, collection, f, initialValue, r) ==
    IF collection.len = 0 THEN initialValue
    ELSE LET e == Elems(h, collection)
             result[k \in 0..Len(e)] ==
                 IF k = 0 THEN initialValue
                 ELSE reducer(r, result[k - 1], iteratee(f, e[k], k - 1), k)
         IN  result[Len(e)]

MapReduce(h, collection, f, initialValue, r) ==
    IF collection.len = 0 THEN initialValue
    ELSE LET e == Elems(h, collection)
             result[k \in 0..Len(e)] ==
                 IF k = 0 THEN initialValue
                 ELSE reducer(r, result[k - 1], iteratee(f, e[k], k - 1), k - 1)
         IN  result[Len(e)]

\* var zero E, for the element type int.
zero == 0

FindFirst(h, collection, p) ==
    IF collection.len = 0 THEN <<zero, FALSE>>
    ELSE LET e == Elems(h, collection)
             loop[k \in 1..(Len(e) + 1)] ==
                 IF k > Len(e) THEN <<zero, FALSE>>
                 ELSE IF predicate(p, e[k], k - 1) THEN <<e[k], TRUE>>
                 ELSE loop[k + 1]
         IN  loop[1]

\* Faulty variant of FindLast: the scan runs from index 0 upward.
FindLastForward(h, collection, p) == FindFirst(h, collection, p)

FindLast(h, collection, p) ==
    IF collection.len = 0 THEN <<zero, FALSE>>
    ELSE LET e == Elems(h, collection)
             loop[k \in 0..Len(e)] ==
                 IF k = 0 THEN <<zero, FALSE>>
                 ELSE IF predicate(p, e[k], k - 1) THEN <<e[k], TRUE>>
                 ELSE loop[k - 1]
         IN  loop[Len(e)]

\* slices.Index
IndexOf(h, collection, element) ==
    LET e == Elems(h, collection)
        loop[k \in 1..(Len(e) + 1)] ==
            IF k > Len(e) THEN 0 - 1
            ELSE IF element = e[k] THEN k - 1
            ELSE loop[k + 1]
    IN  loop[1]

\* slices.Contains: Index(s, v) >= 0
Contains(h, collection, element) == IndexOf(h, collection, element) >= 0

\* Faulty variant of LastIndexOf: the scan runs from index 0 upward.
LastIndexOfForward(h, collection, element) == IndexOf(h, collection, element)

LastIndexOf(h, collection, element) ==
    LET e == Elems(h, collection)
        loop[k \in 0..Len(e)] ==
            IF k = 0 THEN 0 - 1
            ELSE IF e[k] = element THEN k - 1
            ELSE loop[k - 1]
    IN  loop[Len(e)]

\* s[x], s[y] = s[y], s[x], with x and y counted from 0.
Swap(h, s, x, y) ==
    LET arr == h[s.base]
    IN  [h EXCEPT ![s.base] = [arr EXCEPT ![s.off + x + 1] = arr[s.off + y + 1],
                                          ![s.off + y + 1] = arr[s.off + x + 1]]]

\* Faulty variant of ReverseCopy: result := collection, no copy.
ReverseInPlace(h, collection) == [s |-> collection, h |-> h]

\* result := make(S, length); copy(result, collection)
ReverseCopy(h, collection) == Made(h, FreeA, Elems(h, collection))

\* Faulty variant of ShuffleClone: the copy is appended to a nil slice.
ShuffleCloneAppended(h, collection) == Appended(h, FreeA, Elems(h, collection))

\* result := slices.Clone(collection) of Shuffle
ShuffleClone(h, collection) == Clone(h, FreeA, collection)

\* The number of random bytes Shuffle asks for at loop index i.
MaxBytes(i) == IF i > 65535 THEN 4 ELSE IF i > 255 THEN 2 ELSE 1

\* binary.BigEndian.Uint16 / Uint32, and int(b[0]) for one byte.
BigEndian(randomBytes) ==
    LET loop[k \in 0..Len(randomBytes)] ==
            IF k = 0 THEN 0 ELSE loop[k - 1] * (MaxByte + 1) + randomBytes[k]
    IN  loop[Len(randomBytes)]

\* The sizes in bits of Go's int: 32 or 64, as the build's platform has it.
IntSizes == {32, 64}

\* 2^30, the largest power of two the arithmetic below can hold twice.
TwoTo30 == (MaxByte + 1) * (MaxByte + 1) * (MaxByte + 1) * 64

\* Go's a % m for m > 0: the remainder has the sign of a.
GoRem(a, m) ==
    LET r == a % m
    IN  IF a >= 0 \/ r = 0 THEN r ELSE r - m

\* Faulty variant of RandomInt: the remainder is counted down from i.
RandomIntFromTop(randomBytes, i, intSize) ==
    LET loop[k \in 0..Len(randomBytes)] ==
            IF k = 0 THEN 0 ELSE (loop[k - 1] * (MaxByte + 1) + randomBytes[k]) % (i + 1)
    IN  i - loop[Len(randomBytes)]

\* randomInt for loop index i: int(v) % (i + 1), v the unsigned value read.
\* With four bytes and bit 31 of v set, int(v) is v where int has 64 bits
\* and v - 2^32, a negative number, where int has 32 bits; v is held as
\* low + 2^31 to stay within the range of the arithmetic at hand.
RandomInt(randomBytes, i, intSize) ==
    LET m == i + 1
    IN  IF ~(Len(randomBytes) = 4 /\ randomBytes[1] > 127)
        THEN GoRem(BigEndian(randomBytes), m)
        ELSE LET low == BigEndian([randomBytes EXCEPT ![1] = @ - 128])
             IN  IF intSize = 64
                 THEN ((low % m) + 2 * (TwoTo30 % m)) % m
                 ELSE GoRem((low - TwoTo30) - TwoTo30, m)

\* The byte strings readRandom can fill a buffer of n bytes with.
ByteStrings(n) == [1..n -> 0..MaxByte]

\* ------------------------------------------------------------------ state
VARIABLES
    heap,      \* backing arrays: heap[a] is the content of array a
    args,      \* the slices the caller passes
    given,     \* content of the caller's arrays when the call was made
    op,        \* the operation called
    fn,        \* the function passed with it, by name ("none" if none)
    n,         \* its integer argument (n of Take and Drop, size of Chunk, the
               \* initial value of Reduce and MapReduce, the element looked for)
    ret,       \* the slices returned
    pc,        \* "idle", "Reverse", "Shuffle" (inside the loop), "done", "written"
    result,    \* Reverse, Shuffle: the working copy
    i,         \* Shuffle: the loop index
    lo,        \* slices.Reverse: left index
    hi,        \* slices.Reverse: right index
    requests,  \* Shuffle: calls of readRandom made
    failed,    \* Shuffle: readRandom returned an error
    peer,      \* what a second call running at the same time read of args[1]
    rfn,       \* the reducer passed to Reduce and MapReduce, by name
    value,     \* the values returned that are not sequences
    calls,     \* Reduce: the invocations of the reducer, <<acc, item, index>> each
    draw       \* one turn of Shuffle's loop taken on its own: the loop index, the
               \* build's int size, the bytes readRandom delivered, the j drawn

vars == <<heap, args, given, op, fn, n, ret, pc, result, i, lo, hi, requests, failed, peer,
          rfn, value, calls, draw>>

locals == <<result, i, lo, hi, requests, failed>>

NoPeer == [read |-> FALSE, saw |-> << >>]

NoDraw == [stage |-> "none", i |-> 0, intSize |-> 0, randomBytes |-> << >>, j |-> 0,
           tally |-> << >>]

Init ==
    /\ heap = EmptyHeap
    /\ args = << >>
    /\ given = [a \in InAllocs |-> << >>]
    /\ op = "none"
    /\ fn = "none"
    /\ n = 0
    /\ ret = << >>
    /\ pc = "idle"
    /\ result = NilSlice
    /\ i = 0
    /\ lo = 0
    /\ hi = 0
    /\ requests = 0
    /\ failed = FALSE
    /\ peer = NoPeer
    /\ rfn = "none"
    /\ value = << >>
    /\ calls = << >>
    /\ draw = NoDraw

\* Elements in the sequences the caller holds so far.
CellsUsed ==
    LET loop[k \in 0..Len(args)] == IF k = 0 THEN 0 ELSE loop[k - 1] + args[k].len
    IN  loop[Len(args)]

\* The caller prepares one more sequence to pass: nil, or a sequence in an
\* array of its own.
Supply ==
    /\ pc = "idle"
    /\ op = "none"
    /\ Len(args) < MaxSeqs
    /\ \E v \in ValuesUpTo(MaxCells - CellsUsed) :
           LET k == Len(args) + 1
           IN  /\ args' = Append(args, IF v.absent THEN NilSlice ELSE SliceAt(k, Len(v.elems)))
               /\ heap' = [heap EXCEPT ![k] = v.elems]
    /\ UNCHANGED <<given, op, fn, n, ret, pc, result, i, lo, hi, requests, failed, peer,
                 rfn, value, calls, draw>>

\* The call begins, with h the memory it is handed.
Enter(name, h, f, k) ==
    /\ given' = [a \in InAllocs |-> h[a]]
    /\ op' = name
    /\ fn' = f
    /\ n' = k
    /\ peer' = NoPeer

\* An operation that runs as one step: r is what it yields.
Finish(name, r, f, k) ==
    /\ Enter(name, heap, f, k)
    /\ heap' = r.h
    /\ ret' = r.ret
    /\ pc' = "done"
    /\ UNCHANGED <<args, result, i, lo, hi, requests, failed, rfn, value, calls, draw>>

\* A call on one sequence, on two, on any number.
Unary == pc = "idle" /\ op = "none" /\ Len(args) = 1

Binary == pc = "idle" /\ op = "none" /\ Len(args) = 2

Variadic == pc = "idle" /\ op = "none"

Ints == (0 - 1)..(MaxCells + 1)

CallMap ==
    /\ Unary
    /\ \E f \in Iteratees : Finish("Map", Map(heap, args[1], f), f, 0)

CallFilter ==
    /\ Unary
    /\ \E p \in Preds : Finish("Filter", Filter(heap, args[1], p), p, 0)

CallUnique ==
    /\ Unary
    /\ Finish("Unique", Unique(heap, args[1]), "none", 0)

CallPluck ==
    /\ Unary
    /\ \E g \in Getters : Finish("Pluck", Pluck(heap, args[1], g), g, 0)

CallChunk ==
    /\ Unary
    /\ \E size \in Ints : Finish("Chunk", Chunk(heap, args[1], size), "none", size)

\* The caller passes the sequences it holds as one slice of slices, their
\* headers in array OuterA, or passes a nil slice of slices.
CallFlatten ==
    /\ Variadic
    /\ \E outerAbsent \in BOOLEAN :
           /\ outerAbsent => Len(args) = 0
           /\ LET h == IF outerAbsent THEN heap ELSE [heap EXCEPT ![OuterA] = args]
                  collections == IF outerAbsent THEN NilSlice ELSE SliceAt(OuterA, Len(args))
                  r == Flatten(h, collections)
              IN  /\ Enter("Flatten", h, "none", 0)
                  /\ args' = <<collections>>
                  /\ heap' = r.h
                  /\ ret' = r.ret
                  /\ pc' = "done"
                  /\ UNCHANGED <<locals, rfn, value, calls, draw>>

CallIntersect ==
    /\ Variadic
    /\ Finish("Intersect", Intersect(heap, args), "none", 0)

CallDifference ==
    /\ Variadic
    /\ Len(args) >= 1
    /\ Finish("Difference", Difference(heap, args[1], SubSeq(args, 2, Len(args))), "none", 0)

CallUnion ==
    /\ Variadic
    /\ Finish("Union", Union(heap, args), "none", 0)

CallPartition ==
    /\ Unary
    /\ \E p \in Preds : Finish("Partition", Partition(heap, args[1], p), p, 0)

CallZip ==
    /\ Binary
    /\ Finish("Zip", Zip(heap, args[1], args[2]), "none", 0)

CallZipWithIndex ==
    /\ Unary
    /\ Finish("ZipWithIndex", ZipWithIndex(heap, args[1]), "none", 0)

CallTake ==
    /\ Unary
    /\ \E k \in Ints : Finish("Take", Take(heap, args[1], k), "none", k)

CallDrop ==
    /\ Unary
    /\ \E k \in Ints : Finish("Drop", Drop(heap, args[1], k), "none", k)

\* An operation that returns values and no sequence, in one step; log is
\* what it called the caller's reducer with.
FinishLogged(name, v, f, r, k, log) ==
    /\ Enter(name, heap, f, k)
    /\ rfn' = r
    /\ value' = v
    /\ calls' = log
    /\ draw' = draw
    /\ ret' = << >>
    /\ pc' = "done"
    /\ UNCHANGED <<heap, args, result, i, lo, hi, requests, failed>>

FinishValue(name, v, f, r, k) == FinishLogged(name, v, f, r, k, << >>)

CallReduce ==
    /\ Unary
    /\ \E r \in Reducers : \E initialValue \in Initials :
           FinishLogged("Reduce", <<Reduce(heap, args[1], initialValue, r)>>,
                        "none", r, initialValue,
                        IF args[1].len = 0 THEN << >>
                        ELSE ReduceLoop(heap, args[1], initialValue, r).calls)

CallMapReduce ==
    /\ Unary
    /\ \E f \in Iteratees : \E r \in Reducers : \E initialValue \in Initials :
           FinishValue("MapReduce", <<MapReduce(heap, args[1], f, initialValue, r)>>,
                       f, r, initialValue)

CallFindFirst ==
    /\ Unary
    /\ \E p \in Preds : FinishValue("FindFirst", FindFirst(heap, args[1], p), p, "none", 0)

CallFindLast ==
    /\ Unary
    /\ \E p \in Preds : FinishValue("FindLast", FindLast(heap, args[1], p), p, "none", 0)

CallContains ==
    /\ Unary
    /\ \E element \in Elem :
           FinishValue("Contains", <<Contains(heap, args[1], element)>>, "none", "none", element)

CallIndexOf ==
    /\ Unary
    /\ \E element \in Elem :
           FinishValue("IndexOf", <<IndexOf(heap, args[1], element)>>, "none", "none", element)

CallLastIndexOf ==
    /\ Unary
    /\ \E element \in Elem :
           FinishValue("LastIndexOf", <<LastIndexOf(heap, args[1], element)>>,
                       "none", "none", element)

\* Reverse up to the call of slices.Reverse.
CallReverse ==
    /\ Unary
    /\ Enter("Reverse", heap, "none", 0)
    /\ UNCHANGED <<args, i, requests, failed, rfn, value, calls, draw>>
    /\ IF args[1].absent \/ args[1].len = 0
       THEN /\ ret' = <<IF args[1].absent THEN NilSlice ELSE EmptySlice>>
            /\ pc' = "done"
            /\ UNCHANGED <<heap, result, lo, hi>>
       ELSE LET c == ReverseCopy(heap, args[1])
            IN  /\ heap' = c.h
                /\ result' = c.s
                /\ lo' = 0
                /\ hi' = c.s.len - 1
                /\ pc' = "Reverse"
                /\ ret' = << >>

\* One turn of the loop of slices.Reverse.
ReverseStep ==
    /\ pc = "Reverse"
    /\ lo < hi
    /\ heap' = Swap(heap, result, lo, hi)
    /\ lo' = lo + 1
    /\ hi' = hi - 1
    /\ UNCHANGED <<args, given, op, fn, n, ret, pc, result, i, requests, failed, peer,
                 rfn, value, calls, draw>>

ReverseReturn ==
    /\ pc = "Reverse"
    /\ ~(lo < hi)
    /\ ret' = <<result>>
    /\ pc' = "done"
    /\ UNCHANGED <<heap, args, given, op, fn, n, result, i, lo, hi, requests, failed, peer,
                 rfn, value, calls, draw>>

\* Shuffle up to its loop.
CallShuffle ==
    /\ Unary
    /\ Enter("Shuffle", heap, "none", 0)
    /\ UNCHANGED <<args, lo, hi, requests, failed, rfn, value, calls, draw>>
    /\ LET c == ShuffleClone(heap, args[1])
       IN  /\ heap' = c.h
           /\ IF args[1].absent \/ args[1].len <= 1
              THEN /\ ret' = <<c.s>>
                   /\ pc' = "done"
                   /\ UNCHANGED <<result, i>>
              ELSE /\ result' = c.s
                   /\ i' = args[1].len - 1
                   /\ pc' = "Shuffle"
                   /\ ret' = << >>

\* Faulty variant of ShuffleSwap: result[i] = result[j] without the write to result[j].
ShuffleOverwrite(h, s, x, randomBytes, intSize) ==
    LET arr == h[s.base]
    IN  [h EXCEPT ![s.base] = [arr EXCEPT ![s.off + x + 1] =
                                             arr[s.off + RandomInt(randomBytes, x, intSize) + 1]]]

\* After a successful readRandom at loop index x: j, and the swap.
ShuffleSwap(h, s, x, randomBytes, intSize) == Swap(h, s, x, RandomInt(randomBytes, x, intSize))

\* One turn of Shuffle's loop in which readRandom delivers its bytes.
ShuffleStep ==
    /\ pc = "Shuffle"
    /\ i > 0
    /\ \E randomBytes \in ByteStrings(MaxBytes(i)) : \E intSize \in IntSizes :
           heap' = ShuffleSwap(heap, result, i, randomBytes, intSize)
    /\ i' = i - 1
    /\ requests' = requests + 1
    /\ UNCHANGED <<args, given, op, fn, n, ret, pc, result, lo, hi, failed, peer, rfn, value, calls, draw>>

\* Faulty variant of OnRandomError: the input is handed back.
OnRandomErrorInput(h, collection, working) == collection

\* What Shuffle returns when readRandom fails: return result.
OnRandomError(h, collection, working) == working

\* One turn of Shuffle's loop in which readRandom returns an error.
ShuffleFail ==
    /\ pc = "Shuffle"
    /\ i > 0
    /\ requests' = requests + 1
    /\ failed' = TRUE
    /\ ret' = <<OnRandomError(heap, args[1], result)>>
    /\ pc' = "done"
    /\ UNCHANGED <<heap, args, given, op, fn, n, result, i, lo, hi, peer, rfn, value, calls, draw>>

ShuffleReturn ==
    /\ pc = "Shuffle"
    /\ ~(i > 0)
    /\ ret' = <<result>>
    /\ pc' = "done"
    /\ UNCHANGED <<heap, args, given, op, fn, n, result, i, lo, hi, requests, failed, peer,
                 rfn, value, calls, draw>>

\* A second call on the same argument, running while Reverse or Shuffle
\* is inside its loop, reads the argument (all any operation does with it).
PeerRead ==
    /\ pc \in {"Reverse", "Shuffle"}
    /\ ~peer.read
    /\ peer' = [read |-> TRUE, saw |-> Elems(heap, args[1])]
    /\ UNCHANGED <<heap, args, given, op, fn, n, ret, pc, result, i, lo, hi, requests, failed,
                 rfn, value, calls, draw>>

\* The sequences of elements a call handed back: the slices returned, and
\* for Chunk the groups in the outer slice.
Returned ==
    IF op = "Chunk"
    THEN {Elems(heap, ret[1])[g] : g \in 1..ret[1].len}
    ELSE {ret[k] : k \in 1..Len(ret)}

\* The caller writes r[x] = v into a sequence it was handed back.
CallerWrite ==
    /\ pc = "done"
    /\ \E r \in Returned : \E x \in 1..r.len : \E v \in Elem :
           heap' = [heap EXCEPT ![r.base] = [@ EXCEPT ![r.off + x] = v]]
    /\ pc' = "written"
    /\ UNCHANGED <<args, given, op, fn, n, ret, result, i, lo, hi, requests, failed, peer,
                 rfn, value, calls, draw>>

\* The caller is done with the result; the next call starts afresh.
Return ==
    /\ pc \in {"done", "written"}
    /\ heap' = EmptyHeap
    /\ args' = << >>
    /\ given' = [a \in InAllocs |-> << >>]
    /\ op' = "none"
    /\ fn' = "none"
    /\ n' = 0
    /\ ret' = << >>
    /\ pc' = "idle"
    /\ result' = NilSlice
    /\ i' = 0
    /\ lo' = 0
    /\ hi' = 0
    /\ requests' = 0
    /\ failed' = FALSE
    /\ peer' = NoPeer
    /\ rfn' = "none"
    /\ value' = << >>
    /\ calls' = << >>
    /\ draw' = NoDraw

Next ==
    \/ Supply
    \/ CallMap \/ CallFilter \/ CallUnique \/ CallPluck \/ CallChunk \/ CallFlatten
    \/ CallIntersect \/ CallDifference \/ CallUnion \/ CallPartition
    \/ CallZip \/ CallZipWithIndex \/ CallTake \/ CallDrop
    \/ CallReduce \/ CallMapReduce \/ CallFindFirst \/ CallFindLast
    \/ CallContains \/ CallIndexOf \/ CallLastIndexOf
    \/ CallReverse \/ ReverseStep \/ ReverseReturn
    \/ CallShuffle \/ ShuffleStep \/ ShuffleFail \/ ShuffleReturn
    \/ PeerRead \/ Return

Spec == Init /\ [][Next]_vars

\* Where Shuffle's loop stands; every step of the loop changes it.
progress == <<pc, i, requests>>

\* The calls of Shuffle alone.
NextShuffle ==
    \/ Supply
    \/ CallShuffle \/ ShuffleStep \/ ShuffleFail \/ ShuffleReturn
    \/ PeerRead \/ Return

\* Shuffle's loop runs on: readRandom returns, with bytes or with an error,
\* and the turn or the return that follows is taken.
SpecLive ==
    Init /\ [][NextShuffle]_vars /\ WF_progress(ShuffleStep \/ ShuffleFail \/ ShuffleReturn)

\* The same calls with a caller that writes into what it was handed back.
NextCaller == Next \/ CallerWrite

SpecCaller == Init /\ [][NextCaller]_vars

\* ------------------------------------------- one turn of Shuffle's loop
\* The turn of Shuffle's loop at index i, from the choice of maxBytes to j,
\* taken on its own for loop indexes that only slices too long for the
\* calls above reach: around the thresholds of maxBytes and between them.
DrawIndexes ==
    {1, 2, 3, 4, 5, 7, 15, 16, 63, 100, 127, 128, 200, 254, 255,
     256, 257, 65535, 65536, 65537, 69999}

\* 256^e
Pow256(e) == IF e = 0 THEN 1 ELSE IF e = 1 THEN MaxByte + 1
             ELSE IF e = 2 THEN (MaxByte + 1) * (MaxByte + 1)
             ELSE (MaxByte + 1) * (MaxByte + 1) * (MaxByte + 1)

\* v as w bytes, most significant first.
Encode(v, w) == [k \in 1..w |-> (v \div Pow256(w - k)) % (MaxByte + 1)]

SampleBytes == {0, 1, 127, 128, MaxByte}

\* Byte strings readRandom may fill a buffer of w bytes with: all of them
\* for one byte; for more, those made of the smallest and largest bytes and
\* the bytes around the sign bit, and those that spell 0, 1, index - 1, index.
Delivered(w, index) ==
    IF w = 1 THEN ByteStrings(1)
    ELSE [1..w -> SampleBytes] \cup {Encode(v, w) : v \in {0, 1, index - 1, index}}

InitDraw ==
    /\ heap = EmptyHeap
    /\ args = << >>
    /\ given = [a \in InAllocs |-> << >>]
    /\ op = "none"
    /\ fn = "none"
    /\ n = 0
    /\ ret = << >>
    /\ pc = "idle"
    /\ result = NilSlice
    /\ i = 0
    /\ lo = 0
    /\ hi = 0
    /\ requests = 0
    /\ failed = FALSE
    /\ peer = NoPeer
    /\ rfn = "none"
    /\ value = << >>
    /\ calls = << >>
    /\ \E index \in DrawIndexes : \E intSize \in IntSizes :
           draw = [NoDraw EXCEPT !.stage = "loop", !.i = index, !.intSize = intSize]

others == <<heap, args, given, op, fn, n, ret, pc, result, i, lo, hi, requests, failed, peer,
            rfn, value, calls>>

\* maxBytes is chosen, readRandom fills the buffer, j is computed.
DrawRandomInt ==
    /\ draw.stage = "loop"
    /\ \E randomBytes \in Delivered(MaxBytes(draw.i), draw.i) :
           draw' = [draw EXCEPT !.stage = "drawn",
                                !.randomBytes = randomBytes,
                                !.j = RandomInt(randomBytes, draw.i, draw.intSize)]
    /\ UNCHANGED others

\* The values of j whose number of byte strings is counted: all of them for
\* a loop index drawn with one byte, else the smallest, the largest and the
\* two around the remainder of 256^w by i + 1.
Tallied(w, index) ==
    IF w = 1 THEN 0..index
    ELSE {v \in {0, index} \cup {(Pow256(w) % (index + 1)) - 1, Pow256(w) % (index + 1)} :
              v \in 0..index}

\* Every byte string readRandom can deliver, for one and two bytes, is put
\* through the computation of j, and those giving each j are counted.
Tally ==
    /\ draw.stage = "loop"
    /\ MaxBytes(draw.i) <= 2
    /\ draw' = [draw EXCEPT
                   !.stage = "tallied",
                   !.tally = [v \in Tallied(MaxBytes(draw.i), draw.i) |->
                                 Cardinality({randomBytes \in ByteStrings(MaxBytes(draw.i)) :
                                     RandomInt(randomBytes, draw.i, draw.intSize) = v})]]
    /\ UNCHANGED others

NextDraw == DrawRandomInt \/ Tally

SpecDraw == InitDraw /\ [][NextDraw]_vars

\* ------------------------------------------------------------ properties
\* Argument k as the caller passed it (no elements when it is nil).
InSeq(k) ==
    IF args[k].absent THEN << >>
    ELSE [j \in 1..args[k].len |-> given[args[k].base][args[k].off + j]]

\* Returned sequence k as it stands in memory.
OutSeq(k) == Elems(heap, ret[k])

Range(s) == {s[k] : k \in 1..Len(s)}

Count(s, v) == Cardinality({k \in 1..Len(s) : s[k] = v})

IsPermutation(s, t) ==
    /\ Len(s) = Len(t)
    /\ \A v \in Range(s) \cup Range(t) : Count(s, v) = Count(t, v)

\* The j-th smallest member of a set of numbers.
Nth(S, j) == CHOOSE x \in S : Cardinality({y \in S : y < x}) = j - 1

\* The elements of s at the positions idx, in the order of s.
SubSeqAt(s, idx) == [j \in 1..Cardinality(idx) |-> s[Nth(idx, j)]]

\* The positions of s at which predicate p holds (the index passed is 0-based).
Matching(s, p) == {k \in 1..Len(s) : predicate(p, s[k], k - 1)}

FirstIndex(s, v) == CHOOSE k \in 1..Len(s) : s[k] = v /\ \A l \in 1..(k - 1) : s[l] # v

\* r holds exactly the values D, each once, ordered by first occurrence in s.
DistinctInOrderOf(r, D, s) ==
    /\ Range(r) = D
    /\ Len(r) = Cardinality(D)
    /\ \A a \in 1..Len(r) : \A b \in 1..Len(r) :
           a < b => FirstIndex(s, r[a]) < FirstIndex(s, r[b])

Done(name) == pc = "done" /\ op = name

AllAbsent == \A k \in 1..Len(ret) : ret[k].absent

\* C1: when readRandom fails at any request, the first or a later one,
\* Shuffle returns the input's elements in the input's order.
C1_FailureReturnsInputOrder ==
    (Done("Shuffle") /\ failed) => (~ret[1].absent /\ OutSeq(1) = InSeq(1))

\* C2: inside Shuffle's loop and at every return, for an input of length
\* above 1, the working sequence is a permutation of the input.
C2_ShufflePermutes ==
    (op = "Shuffle" /\ args[1].len > 1 /\ pc \in {"Shuffle", "done"}) =>
        IsPermutation(Elems(heap, IF pc = "Shuffle" THEN result ELSE ret[1]), InSeq(1))

C2_Witness ==
    /\ Done("Shuffle")
    /\ requests >= 2
    /\ OutSeq(1) # InSeq(1)
    /\ \E v \in Elem : Count(InSeq(1), v) >= 2

\* C3, as claimed: Filter keeps absent, empty and populated apart: absent
\* gives absent, an empty input and a populated input without a match give
\* empty and not absent, otherwise the matching elements in source order.
C3_FilterThreeStates ==
    Done("Filter") =>
        LET s == InSeq(1)
            idx == Matching(s, fn)
        IN  /\ args[1].absent => ret[1].absent
            /\ (~args[1].absent /\ idx = {}) => (~ret[1].absent /\ ret[1].len = 0)
            /\ idx # {} => (~ret[1].absent /\ OutSeq(1) = SubSeqAt(s, idx))

\* C3, amended: Filter of an absent sequence, of an empty one and of a
\* populated one without a match is absent; otherwise the result is the
\* matching elements in source order.
C3_FilterNilWithoutMatch ==
    Done("Filter") =>
        LET s == InSeq(1)
            idx == Matching(s, fn)
        IN  /\ idx = {} => ret[1].absent
            /\ idx # {} => (~ret[1].absent /\ OutSeq(1) = SubSeqAt(s, idx))

C3_Witness ==
    /\ Done("Filter")
    /\ args[1].len >= 2
    /\ Matching(InSeq(1), fn) = {}
    /\ ret[1].absent

\* C4: Unique returns each distinct value once, ordered by first occurrence;
\* Unique of an absent and of an empty sequence is absent.
C4_UniqueFirstOccurrence ==
    Done("Unique") =>
        /\ args[1].len = 0 => ret[1].absent
        /\ args[1].len > 0 =>
               (~ret[1].absent /\ DistinctInOrderOf(OutSeq(1), Range(InSeq(1)), InSeq(1)))

C4_Witness ==
    /\ Done("Unique")
    /\ args[1].len >= 3
    /\ ret[1].len = 2
    /\ InSeq(1)[1] = InSeq(1)[3]

\* C5: no operation writes to the sequences it receives: in every state of
\* a call, the states inside Reverse and Shuffle included, the caller's
\* arrays hold what they held when the call was made, and a second call
\* reading the argument meanwhile sees just that.
C5_InputsUntouched ==
    op # "none" =>
        /\ \A a \in InAllocs : heap[a] = given[a]
        /\ peer.read => peer.saw = InSeq(1)

C5_Witness ==
    /\ pc = "Reverse"
    /\ lo > 0
    /\ peer.read
    /\ Elems(heap, result) # InSeq(1)

\* C6: every sequence handed back, each group of Chunk included, lies in
\* storage of its own, so a write into it leaves the caller's arrays as
\* they were; only Intersect of a single sequence is excepted.
C6_ReturnedStorageDistinct ==
    (pc \in {"done", "written"} /\ ~(op = "Intersect" /\ Len(args) = 1)) =>
        /\ \A r \in Returned : r.len = 0 \/ r.base \notin InAllocs
        /\ \A a \in InAllocs : heap[a] = given[a]

\* C7, as claimed: when any sequence supplied to a call is absent, every
\* sequence returned is absent.
C7_AnyAbsentGivesAbsent ==
    (pc = "done" /\ \E k \in 1..Len(args) : args[k].absent) => AllAbsent

\* C7, amended: the result is absent when the sequence of an operation on
\* one sequence is absent (for Flatten the outer one), when either sequence
\* of Zip is, when the first sequence of Difference or of Intersect is, and
\* when every sequence of Union is.
C7_AbsentGivesAbsent ==
    pc = "done" =>
        /\ (op \in {"Map", "Filter", "Pluck", "Unique", "Take", "Drop", "Reverse", "Chunk",
                    "Flatten", "Partition", "ZipWithIndex", "Shuffle"} /\ args[1].absent)
               => AllAbsent
        /\ (op = "Zip" /\ (args[1].absent \/ args[2].absent)) => AllAbsent
        /\ (op \in {"Difference", "Intersect"} /\ Len(args) >= 1 /\ args[1].absent) => AllAbsent
        /\ (op = "Union" /\ \A k \in 1..Len(args) : args[k].absent) => AllAbsent

C7_Witness ==
    /\ Done("Intersect")
    /\ Len(args) >= 2
    /\ args[1].absent
    /\ args[2].len > 0
    /\ ret[1].absent

\* C8, as claimed: Difference, Partition, and Union and Intersect of two or
\* more sequences, return no absent sequence when every sequence supplied
\* is present.
C8_PresentGivesPresent ==
    (/\ pc = "done"
     /\ \/ op \in {"Difference", "Partition"}
        \/ op \in {"Union", "Intersect"} /\ Len(args) >= 2
     /\ \A k \in 1..Len(args) : ~args[k].absent)
        => \A k \in 1..Len(ret) : ~ret[k].absent

\* C8, amended: Partition of a populated sequence, and Intersect of two or
\* more sequences the first of which is populated, return no absent
\* sequence; Difference and Union return absent whenever they yield no
\* element, and so do Partition and Intersect for an empty first sequence.
C8_EmptyOnlyWhenPopulated ==
    pc = "done" =>
        /\ (op = "Partition" /\ args[1].len > 0) => \A k \in 1..2 : ~ret[k].absent
        /\ (op = "Intersect" /\ Len(args) >= 2 /\ args[1].len > 0) => ~ret[1].absent
        /\ op \in {"Difference", "Union"} => (ret[1].len = 0 => ret[1].absent)
        /\ (op = "Partition" /\ args[1].len = 0) => AllAbsent
        /\ (op = "Intersect" /\ Len(args) >= 2 /\ args[1].len = 0) => AllAbsent

C8_Witness ==
    /\ Done("Difference")
    /\ Len(args) = 2
    /\ args[1].len > 0
    /\ ~args[2].absent
    /\ ret[1].absent

\* The values of the first sequence that occur in every other sequence.
Common == {v \in Range(InSeq(1)) : \A k \in 2..Len(args) : v \in Range(InSeq(k))}

\* C9: for two or more sequences Intersect returns exactly the distinct
\* values of the first that occur in every other sequence, each once, in the
\* order of first occurrence in the first; the result is a subset of every
\* input.
C9_IntersectIsCommon ==
    (Done("Intersect") /\ Len(args) >= 2) =>
        /\ DistinctInOrderOf(OutSeq(1), Common, InSeq(1))
        /\ \A k \in 1..Len(args) : Range(OutSeq(1)) \subseteq Range(InSeq(k))

C9_Witness ==
    /\ Done("Intersect")
    /\ Len(args) = 3
    /\ args[1].len = 1
    /\ Count(InSeq(2), InSeq(1)[1]) = 2
    /\ InSeq(1)[1] \notin Range(InSeq(3))
    /\ ~ret[1].absent
    /\ ret[1].len = 0

Kept == {k \in 1..Len(InSeq(1)) : \A c \in 2..Len(args) : InSeq(1)[k] \notin Range(InSeq(c))}

\* C11: Difference returns exactly the elements of the first sequence whose
\* value occurs in none of the others, in the order of the first and with
\* duplicates kept; the result shares no value with any other sequence;
\* without others it is all of the first's elements; an absent first gives
\* an absent result.
C11_DifferenceKeepsOrder ==
    Done("Difference") =>
        /\ OutSeq(1) = SubSeqAt(InSeq(1), Kept)
        /\ \A c \in 2..Len(args) : Range(OutSeq(1)) \cap Range(InSeq(c)) = {}
        /\ Len(args) = 1 => OutSeq(1) = InSeq(1)
        /\ args[1].absent => ret[1].absent

C11_Witness ==
    /\ Done("Difference")
    /\ Len(args) = 3
    /\ args[1].len = 3
    /\ InSeq(1)[1] = InSeq(1)[3]
    /\ InSeq(1)[2] \in Range(InSeq(3))
    /\ InSeq(1)[2] \notin Range(InSeq(2))
    /\ ret[1].len = 2

\* All sequences supplied, one after the other.
AllIn == Concat(given, args)

\* C12: Union returns every distinct value of any sequence supplied exactly
\* once, ordered by first appearance when the sequences are read left to
\* right and each from index 0 upward, so it contains every element of every
\* input; Union of no sequence is absent.
C12_UnionFirstAppearance ==
    Done("Union") =>
        /\ DistinctInOrderOf(OutSeq(1), Range(AllIn), AllIn)
        /\ \A k \in 1..Len(args) : Range(InSeq(k)) \subseteq Range(OutSeq(1))
        /\ Len(args) = 0 => ret[1].absent

C12_Witness ==
    /\ Done("Union")
    /\ Len(args) = 2
    /\ args[1].len = 2
    /\ InSeq(1)[1] = InSeq(1)[2]
    /\ args[2].len = 2
    /\ InSeq(2)[2] = InSeq(1)[1]
    /\ InSeq(2)[1] # InSeq(1)[1]
    /\ OutSeq(1) = <<InSeq(1)[1], InSeq(2)[1]>>

\* C13: Partition returns (matched, unmatched) whose lengths add up to the
\* length of the input, matched the elements for which predicate(item,
\* index) holds and unmatched the others, both in source order; an absent
\* input gives (absent, absent); for a populated input neither side is
\* absent, a side without elements is empty.
C13_PartitionTotal ==
    Done("Partition") =>
        LET s == InSeq(1)
            idx == Matching(s, fn)
        IN  /\ ret[1].len + ret[2].len = Len(s)
            /\ OutSeq(1) = SubSeqAt(s, idx)
            /\ OutSeq(2) = SubSeqAt(s, (1..Len(s)) \ idx)
            /\ args[1].absent => (ret[1].absent /\ ret[2].absent)
            /\ Len(s) > 0 => (~ret[1].absent /\ ~ret[2].absent)

C13_Witness ==
    /\ Done("Partition")
    /\ fn = "evenIndex"
    /\ args[1].len = 3
    /\ InSeq(1)[1] # InSeq(1)[3]
    /\ OutSeq(1) = <<InSeq(1)[1], InSeq(1)[3]>>
    /\ OutSeq(2) = <<InSeq(1)[2]>>

\* C14: for every sequence, absent, empty or populated, and every mapper,
\* initial value and reducer, MapReduce returns what Reduce of Map returns,
\* the mapper and the reducer being handed the same index; for an absent and
\* for an empty sequence both return the initial value.
C14_MapReduceIsMapThenReduce ==
    /\ Done("MapReduce") =>
           LET mapped == Map(heap, args[1], fn)
           IN  /\ value = <<Reduce(mapped.h, mapped.ret[1], n, rfn)>>
               /\ args[1].len = 0 => value = <<n>>
    /\ (Done("Reduce") /\ args[1].len = 0) => value = <<n>>

C14_Witness ==
    /\ Done("MapReduce")
    /\ fn = "plusIndex"
    /\ rfn = "byIndex"
    /\ n = 7
    /\ args[1].len = 3
    /\ value = <<7 + (InSeq(1)[2] + 1) + 2 * (InSeq(1)[3] + 2)>>

\* C15: Map and Pluck keep length and position: Map(S, f)[i] = f(S[i], i)
\* and Pluck(S, g)[i] = g(S[i]) for every index i; an absent S gives absent
\* and an empty S an empty result that is not absent.
C15_MapPluckPositions ==
    /\ Done("Map") =>
           /\ ret[1].absent = args[1].absent
           /\ ret[1].len = args[1].len
           /\ \A k \in 1..args[1].len : OutSeq(1)[k] = iteratee(fn, InSeq(1)[k], k - 1)
    /\ Done("Pluck") =>
           /\ ret[1].absent = args[1].absent
           /\ ret[1].len = args[1].len
           /\ \A k \in 1..args[1].len : OutSeq(1)[k] = propertyGetter(fn, InSeq(1)[k])

C15_Witness ==
    /\ Done("Map")
    /\ fn = "plusIndex"
    /\ args[1].len = 3
    /\ InSeq(1)[1] = InSeq(1)[3]
    /\ OutSeq(1)[3] = OutSeq(1)[1] + 2

Max(a, b) == IF a > b THEN a ELSE b

\* min(max(n, 0), length) for the call made.
Clamped == Min(Max(n, 0), Len(InSeq(1)))

\* C16: for a present S and every integer n, Take(S, n) is the first
\* min(max(n, 0), length) elements of S and Drop(S, n) the elements after
\* them, neither absent; for an absent S both are absent for every n.
C16_TakeDropClamp ==
    /\ Done("Take") =>
           /\ ret[1].absent = args[1].absent
           /\ OutSeq(1) = SubSeq(InSeq(1), 1, Clamped)
    /\ Done("Drop") =>
           /\ ret[1].absent = args[1].absent
           /\ OutSeq(1) = SubSeq(InSeq(1), Clamped + 1, Len(InSeq(1)))

C16_Witness ==
    /\ Done("Drop")
    /\ args[1].len = 2
    /\ n > 2
    /\ ~ret[1].absent
    /\ ret[1].len = 0

\* The groups Chunk handed back.
Groups == Elems(heap, ret[1])

C18_ZipPairs ==
    Done("Zip") =>
        /\ (args[1].absent \/ args[2].absent) => ret[1].absent
        /\ (~args[1].absent /\ ~args[2].absent) =>
               /\ ~ret[1].absent
               /\ ret[1].len = Min(args[1].len, args[2].len)
               /\ \A k \in 1..ret[1].len : OutSeq(1)[k] = <<InSeq(1)[k], InSeq(2)[k]>>

C18_Witness ==
    /\ Done("Zip")
    /\ args[1].len = 3
    /\ args[2].len = 1
    /\ InSeq(1)[1] # InSeq(2)[1]
    /\ OutSeq(1) = <<<<InSeq(1)[1], InSeq(2)[1]>>>>

\* C19: FindFirst returns (S[k], true) for the smallest index k at which
\* the predicate holds and FindLast for the largest; when S is absent or
\* empty or the predicate holds nowhere, both return (zero value, false).
C19_FindFirstLast ==
    (pc = "done" /\ op \in {"FindFirst", "FindLast"}) =>
        LET s == InSeq(1)
            idx == Matching(s, fn)
        IN  /\ idx = {} => value = <<zero, FALSE>>
            /\ (idx # {} /\ op = "FindFirst") => value = <<s[Nth(idx, 1)], TRUE>>
            /\ (idx # {} /\ op = "FindLast") => value = <<s[Nth(idx, Cardinality(idx))], TRUE>>

C19_Witness ==
    /\ Done("FindLast")
    /\ fn = "evenIndex"
    /\ args[1].len = 3
    /\ InSeq(1)[1] # InSeq(1)[3]
    /\ value = <<InSeq(1)[3], TRUE>>

\* The 0-based indexes of the argument at which the element looked for stands.
Hits == {k - 1 : k \in {j \in 1..Len(InSeq(1)) : InSeq(1)[j] = n}}

\* C20: IndexOf(S, v) is the smallest index at which S holds v and
\* LastIndexOf(S, v) the largest, both -1 when S is absent, empty or without
\* v; Contains(S, v) is true exactly when IndexOf(S, v) is not -1; when v is
\* found, 0 <= IndexOf(S, v) <= LastIndexOf(S, v) < length(S).
C20_IndexOfBounds ==
    (pc = "done" /\ op \in {"IndexOf", "LastIndexOf", "Contains"}) =>
        LET first == IndexOf(heap, args[1], n)
            last == LastIndexOf(heap, args[1], n)
        IN  /\ op = "IndexOf" => value = <<first>>
            /\ op = "LastIndexOf" => value = <<last>>
            /\ op = "Contains" => value = <<first # 0 - 1>>
            /\ Hits = {} => (first = 0 - 1 /\ last = 0 - 1)
            /\ Hits # {} =>
                   /\ \A x \in Hits : first <= x /\ x <= last
                   /\ first \in Hits
                   /\ last \in Hits
                   /\ 0 <= first /\ first <= last /\ last < args[1].len

C20_Witness ==
    /\ Done("LastIndexOf")
    /\ args[1].len = 3
    /\ InSeq(1)[2] # n
    /\ value = <<2>>
    /\ IndexOf(heap, args[1], n) = 0

\* Unique called on what the call of Unique returned.
UniqueAgain == Unique(heap, ret[1])

\* C21: Unique is idempotent: for a non-empty S, Unique(Unique(S)) equals
\* Unique(S) element for element, in the same order.
C21_UniqueIdempotent ==
    (Done("Unique") /\ args[1].len > 0) =>
        /\ UniqueAgain.ret[1].absent = ret[1].absent
        /\ Elems(UniqueAgain.h, UniqueAgain.ret[1]) = OutSeq(1)

C21_Witness ==
    /\ Done("Unique")
    /\ args[1].len = 4
    /\ InSeq(1)[1] = InSeq(1)[2]
    /\ InSeq(1)[1] = InSeq(1)[4]
    /\ InSeq(1)[3] # InSeq(1)[1]
    /\ Elems(UniqueAgain.h, UniqueAgain.ret[1]) = <<InSeq(1)[1], InSeq(1)[3]>>

\* C22: Reduce is a left fold: the reducer is invoked once per element in
\* increasing index order, each time with the accumulator the invocation
\* before produced (the initial value at index 0), the element and its
\* index, and the last accumulator is returned; for an absent or empty
\* sequence the reducer is not invoked and the initial value is returned.
C22_ReduceLeftFold ==
    Done("Reduce") =>
        LET s == InSeq(1)
            out(k) == reducer(rfn, calls[k][1], calls[k][2], calls[k][3])
        IN  /\ Len(calls) = Len(s)
            /\ \A k \in 1..Len(calls) :
                   /\ calls[k][1] = IF k = 1 THEN n ELSE out(k - 1)
                   /\ calls[k][2] = s[k]
                   /\ calls[k][3] = k - 1
            /\ value = <<IF Len(s) = 0 THEN n ELSE out(Len(s))>>

C22_Witness ==
    /\ Done("Reduce")
    /\ rfn = "positional"
    /\ n = 7
    /\ args[1].len = 3
    /\ InSeq(1)[1] # InSeq(1)[3]
    /\ Len(calls) = 3
    /\ value = <<((7 * 3 + InSeq(1)[1]) * 3 + InSeq(1)[2]) * 3 + InSeq(1)[3]>>

\* The inner sequences handed to Flatten, as slices.
Inner == Elems(given, args[1])

\* The lengths of the inner sequences, added up.
TotalLen ==
    LET loop[k \in 0..Len(Inner)] == IF k = 0 THEN 0 ELSE loop[k - 1] + Inner[k].len
    IN  loop[Len(Inner)]

\* C23: Flatten of a present outer sequence is the concatenation of the
\* inner sequences in outer order, each in its own order, as long as the
\* inner lengths added up; an absent outer gives absent; an empty outer, and
\* an outer whose inner sequences are all empty or absent, gives empty, not
\* absent.
C23_FlattenConcatenates ==
    Done("Flatten") =>
        /\ args[1].absent => ret[1].absent
        /\ ~args[1].absent =>
               /\ ~ret[1].absent
               /\ ret[1].len = TotalLen
               /\ \A k \in 1..Len(Inner) :
                      LET before == Len(Concat(given, SubSeq(Inner, 1, k - 1)))
                      IN  \A j \in 1..Inner[k].len :
                              OutSeq(1)[before + j] = given[Inner[k].base][Inner[k].off + j]

C23_Witness ==
    /\ Done("Flatten")
    /\ Len(Inner) = 3
    /\ Inner[1].len = 1
    /\ Inner[2].absent
    /\ Inner[3].len = 2
    /\ given[1][1] # given[3][1]
    /\ given[3][1] # given[3][2]
    /\ OutSeq(1) = <<given[1][1], given[3][1], given[3][2]>>

\* C24: Shuffle of an absent sequence is absent, and Shuffle of a sequence
\* of length 0 or 1 is a present sequence equal to the input (empty stays
\* empty, not absent); in both cases the call is over without a request to
\* readRandom, whether or not readRandom would fail.
C24_ShortShuffle ==
    (op = "Shuffle" /\ args[1].len <= 1) =>
        /\ pc = "done"
        /\ requests = 0
        /\ ~failed
        /\ ret[1].absent = args[1].absent
        /\ OutSeq(1) = InSeq(1)

C24_Witness ==
    /\ Done("Shuffle")
    /\ ~args[1].absent
    /\ args[1].len = 0
    /\ ~ret[1].absent
    /\ requests = 0

\* C25: in the turn of Shuffle's loop at index i, for every byte string
\* readRandom can deliver, the drawn j satisfies 0 <= j <= i, so that both
\* indexes of the swap lie within the slice.
C25_DrawnIndexInBounds ==
    draw.stage = "drawn" => (0 <= draw.j /\ draw.j <= draw.i)

\* C25, the order of the loop: i starts at length - 1 and goes down by one
\* per turn, and a turn leaves the elements above its index where they are.
C25_LoopOrder ==
    [][/\ (pc = "idle" /\ pc' = "Shuffle") => i' = args'[1].len - 1
       /\ pc = "Shuffle" =>
              /\ i \in 0..(result.len - 1)
              /\ i' \in {i, i - 1}
              /\ \A x \in (i + 1)..(result.len - 1) :
                     heap'[result.base][result.off + x + 1]
                         = heap[result.base][result.off + x + 1]]_vars

\* The value of the bytes as an unsigned big-endian number, modulo m.
UnsignedMod(randomBytes, m) ==
    LET loop[k \in 0..Len(randomBytes)] ==
            IF k = 0 THEN 0 ELSE (loop[k - 1] * (MaxByte + 1) + randomBytes[k]) % m
    IN  loop[Len(randomBytes)]

\* C26: at loop index i Shuffle asks for 1 byte when i <= 255, for 2 when
\* 256 <= i <= 65535 and for 4 when i > 65535, reads them as an unsigned
\* big-endian number and sets j to that number modulo i + 1; the bytes that
\* spell a number of 0..i give that number as j.
C26_WidthAndReduction ==
    draw.stage = "drawn" =>
        LET w == Len(draw.randomBytes)
        IN  /\ w = IF draw.i <= 255 THEN 1 ELSE IF draw.i <= 65535 THEN 2 ELSE 4
            /\ draw.j = UnsignedMod(draw.randomBytes, draw.i + 1)
            /\ \A v \in {0, 1, draw.i - 1, draw.i} :
                   RandomInt(Encode(v, w), draw.i, draw.intSize) = v

====
